---- MODULE Spec2Model ----
(***************************************************************************)
(* State-machine model of the YaMDb REST backend (api/views.py,            *)
(* reviews/models.py): signup with e-mailed confirmation codes, token      *)
(* exchange, the users resource with its "me" endpoint, and the nested     *)
(* review / comment resources with the computed title rating.              *)
(*                                                                         *)
(* Every HTTP request is one action, except the two handlers whose         *)
(* database operations other requests can interleave with:                 *)
(*   SignupView.post           -> SignupPost, SignupSave, SignupSendMail,   *)
(*                                SignupPersist                             *)
(*   ReviewViewSet.create      -> ReviewCreate, ReviewSave                  *)
(* The variable `last` holds the request completed by the latest step and  *)
(* its response (Pending when the step answered no request).               *)
(***************************************************************************)
EXTENDS Integers, FiniteSets, Sequences, TLC

VARIABLES users, tokens, signup, titles, reviews, comments, rcreate, nextId,
          last

vars == <<users, tokens, signup, titles, reviews, comments, rcreate, nextId,
          last>>

(***************************************************************************)
(* Input domains and bounds                                                *)
(***************************************************************************)
\* The administrator createsuperuser made, and the names requests submit.
Root == "root"
Usernames == {"me", "bob"}
AllNames == Usernames \cup {Root}
Emails == {"a@x", "b@x"}
AllEmails == Emails \cup {"r@x"}
Roles == {"user", "moderator", "admin"}
\* Requests in flight between two of their database operations.
SignupWorkers == {"s1"}
ReviewWorkers == {"r1", "r2"}

\* Confirmation codes are 1..MaxCode; NoCode is the empty column value.
MaxCode == 2
Codes == 1..MaxCode
NoCode == 0

\* A field missing from the request body, and the blank string.
Absent == "absent"
Blank == ""
\* request.user of an unauthenticated request.
Anonymous == "anonymous"

Pending == [op |-> "pending"]
\* A signup worker and a review-creation worker with no request in flight.
Idle == [st |-> "idle", username |-> Blank, email |-> Blank, code |-> NoCode,
         stale |-> FALSE]
RIdle == [st |-> "idle", caller |-> Blank, title |-> 0, score |-> 0]

\* Review scores the serializer accepts, and the review rows the model holds.
MinScore == 1
MaxScore == 10
MaxReviews == 2

(***************************************************************************)
(* The User table: username -> row.  reviews/models.py declares email      *)
(* unique and role a non-blank CharField defaulting to "user".             *)
(***************************************************************************)
Exists(u) == u \in DOMAIN users

\* A row as INSERTed: no confirmation code yet.  `origin` is history, not a
\* column: the handler that created the row.
NewUser(email, role, origin) ==
    [email |-> email, role |-> role, code |-> NoCode, origin |-> origin]

Insert(table, u, row) ==
    [n \in DOMAIN table \cup {u} |-> IF n = u THEN row ELSE table[n]]

Remove(table, u) == [n \in DOMAIN table \ {u} |-> table[n]]

\* unique=True on User.email: no other row holds this address.
EmailFree(email, self) ==
    \A n \in DOMAIN users : n = self \/ users[n].email # email

\* EmailField(unique=True): a non-blank address no other row holds.
EmailValid(email, self) == email \in AllEmails /\ EmailFree(email, self)

\* CharField(max_length=50) without blank=True: the empty string is refused.
RoleValid(role) == role # Blank

(***************************************************************************)
(* Permission classes (api/permissions.py)                                 *)
(***************************************************************************)
\* JWT authentication: the bearer token names a user row that still exists.
IsAuthenticated(caller) == caller \in tokens /\ Exists(caller)

RoleOf(caller) == IF IsAuthenticated(caller) THEN users[caller].role ELSE Anonymous

IsAdmin(caller) == RoleOf(caller) = "admin"

\* The status of a request the permission layer refuses.
Denied(caller) == IF IsAuthenticated(caller) THEN 403 ELSE 401

CatalogUnchanged == UNCHANGED <<titles, reviews, comments, rcreate, nextId>>

(***************************************************************************)
(* SignupView.post                                                         *)
(***************************************************************************)
SignupResponse(username, email, status) ==
    [op |-> "signup", username |-> username, email |-> email, status |-> status]

SignupReservedNever(username) == FALSE

\* Line 178: the reserved username.
SignupReserved(username) == username = "me"

EmailDiffersNever(stored, email) == FALSE

\* Line 187: the stored address against the submitted one.
EmailDiffers(stored, email) == stored # email

\* Lines 175-200: the reserved name, then the lookup of an existing user.
SignupPost(w, username, email) ==
    /\ IF SignupReserved(username)
       THEN /\ last' = SignupResponse(username, email, 400)
            /\ UNCHANGED signup
       ELSE IF Exists(username)
       THEN /\ last' = SignupResponse(username, email,
                          IF EmailDiffers(users[username].email, email)
                          THEN 400 ELSE 200)
            /\ UNCHANGED signup
       ELSE /\ signup[w].st = "idle"
            /\ signup' = [signup EXCEPT ![w] =
                            [Idle EXCEPT !.st = "checked", !.username = username,
                                         !.email = email]]
            /\ last' = Pending
    /\ UNCHANGED users
    /\ UNCHANGED tokens
    /\ CatalogUnchanged

\* SignUpSerializer.is_valid(): both fields valid and unique.
SignUpValid(username, email) ==
    /\ username \in Usernames
    /\ ~Exists(username)
    /\ EmailValid(email, username)

\* Lines 202-204 and 214-215: validate, then INSERT the user row.
SignupSave(w) ==
    /\ signup[w].st = "checked"
    /\ IF SignUpValid(signup[w].username, signup[w].email)
       THEN /\ users' = Insert(users, signup[w].username,
                               NewUser(signup[w].email, "user", "signup"))
            /\ signup' = [signup EXCEPT ![w].st = "created"]
            /\ last' = Pending
       ELSE /\ last' = SignupResponse(signup[w].username, signup[w].email, 400)
            /\ signup' = [signup EXCEPT ![w] = Idle]
            /\ UNCHANGED users
    /\ UNCHANGED tokens
    /\ CatalogUnchanged

\* Line 207: the mail collaborator generates and sends a code and returns it,
\* or raises (no code comes back) and the request ends with a server error.
SignupSendMail(w) ==
    /\ signup[w].st = "created"
    /\ \E code \in Codes \cup {NoCode} :
         IF code # NoCode
         THEN /\ signup' = [signup EXCEPT ![w].st = "mailed", ![w].code = code]
              /\ last' = Pending
         ELSE /\ signup' = [signup EXCEPT ![w] = Idle]
              /\ last' = SignupResponse(signup[w].username, signup[w].email, 500)
    /\ UNCHANGED users
    /\ UNCHANGED tokens
    /\ CatalogUnchanged

\* Lines 209-212: user.save() writes every column of the instance created at
\* line 204: an UPDATE of its row, or an INSERT when that row is gone.
SignupPersist(w) ==
    /\ signup[w].st = "mailed"
    /\ LET u == signup[w].username
           row == [NewUser(signup[w].email, "user", "signup")
                     EXCEPT !.code = signup[w].code]
           clash == \/ ~EmailFree(signup[w].email, u)
                    \/ signup[w].stale /\ Exists(u)
       IN  IF clash
           THEN /\ last' = SignupResponse(u, signup[w].email, 500)
                /\ UNCHANGED users
           ELSE /\ users' = Insert(users, u, row)
                /\ last' = SignupResponse(u, signup[w].email, 200)
    /\ signup' = [signup EXCEPT ![w] = Idle]
    /\ UNCHANGED tokens
    /\ CatalogUnchanged

(***************************************************************************)
(* TokenObtainWithConfirmationView.create                                  *)
(***************************************************************************)
NoToken == "none"

\* TokenObtainWithConfirmationSerializer: both fields present and non-blank.
TokenRequestValid(username, code) == username # Blank /\ code # NoCode

TokenResponse(username, code, status, token) ==
    [op |-> "token", username |-> username, code |-> code, status |-> status,
     token |-> token]

\* Line 155: the reserved username.
TokenReserved(username) == username = "me"

CodeMatchesAlways(submitted, stored) == TRUE

\* Line 160: the comparison with the stored code.
CodeMatches(submitted, stored) == submitted = stored

\* Lines 147-166.  AccessToken.for_user signs a token for the user and stores
\* nothing; `tokens` is the set of users whose clients hold one.
TokenCreate(username, code) ==
    /\ last' =
         IF ~TokenRequestValid(username, code)
         THEN TokenResponse(username, code, 400, NoToken)
         ELSE IF TokenReserved(username)
         THEN TokenResponse(username, code, 400, NoToken)
         ELSE IF ~Exists(username)
         THEN TokenResponse(username, code, 404, NoToken)
         ELSE IF CodeMatches(code, users[username].code)
         THEN TokenResponse(username, code, 200, username)
         ELSE TokenResponse(username, code, 400, NoToken)
    /\ tokens' = IF last'.token = NoToken THEN tokens
                 ELSE tokens \cup {last'.token}
    /\ UNCHANGED <<users, signup>>
    /\ CatalogUnchanged

(***************************************************************************)
(* UsersViewSet                                                            *)
(***************************************************************************)
UsersResponse(op, method, caller, target, email, role, status) ==
    [op |-> op, method |-> method, caller |-> caller, target |-> target,
     email |-> email, role |-> role, status |-> status]

\* UserSerializer.is_valid() on the fields the body carries.
UserDataValid(target, email, role) ==
    /\ email # Absent => EmailValid(email, target)
    /\ role # Absent => RoleValid(role)

\* serializer.save() of a partial update: the fields present overwrite.
Updated(row, email, role) ==
    [row EXCEPT !.email = IF email = Absent THEN @ ELSE email,
                !.role = IF role = Absent THEN @ ELSE role]

\* POST /users/ (CreateModelMixin.create behind IsAdmin).
UsersCreate(caller, username, email, role) ==
    /\ IF ~IsAdmin(caller)
       THEN /\ last' = UsersResponse("users", "POST", caller, username, email,
                                     role, Denied(caller))
            /\ UNCHANGED users
       ELSE IF Exists(username) \/ ~UserDataValid(username, email, role)
       THEN /\ last' = UsersResponse("users", "POST", caller, username, email,
                                     role, 400)
            /\ UNCHANGED users
       ELSE /\ users' = Insert(users, username,
                               NewUser(email,
                                       IF role = Absent THEN "user" ELSE role,
                                       "admin"))
            /\ last' = UsersResponse("users", "POST", caller, username, email,
                                     role, 201)
    /\ UNCHANGED signup
    /\ UNCHANGED tokens
    /\ CatalogUnchanged

\* Lines 112-116: UsersViewSet.update, reached by PUT and (through
\* partial_update) by PATCH, after the IsAdmin check of the dispatcher.
UsersUpdate(caller, method, target, email, role) ==
    /\ IF ~IsAdmin(caller)
       THEN /\ last' = UsersResponse("users", method, caller, target, email,
                                     role, Denied(caller))
            /\ UNCHANGED users
       ELSE IF method = "PUT"
       THEN /\ last' = UsersResponse("users", method, caller, target, email,
                                     role, 405)
            /\ UNCHANGED users
       ELSE IF ~Exists(target)
       THEN /\ last' = UsersResponse("users", method, caller, target, email,
                                     role, 404)
            /\ UNCHANGED users
       ELSE IF ~UserDataValid(target, email, role)
       THEN /\ last' = UsersResponse("users", method, caller, target, email,
                                     role, 400)
            /\ UNCHANGED users
       ELSE /\ users' = [users EXCEPT ![target] = Updated(@, email, role)]
            /\ last' = UsersResponse("users", method, caller, target, email,
                                     role, 200)
    /\ UNCHANGED signup
    /\ UNCHANGED tokens
    /\ CatalogUnchanged

\* DELETE /users/{username}/ (DestroyModelMixin.destroy behind IsAdmin).  A
\* signup still holding the instance of the deleted row now holds a stale one,
\* and a token naming the deleted row no longer authenticates.
UsersDestroy(caller, target) ==
    /\ IF ~IsAdmin(caller)
       THEN /\ last' = UsersResponse("users", "DELETE", caller, target, Absent,
                                     Absent, Denied(caller))
            /\ UNCHANGED <<users, signup, tokens>>
       ELSE IF ~Exists(target)
       THEN /\ last' = UsersResponse("users", "DELETE", caller, target, Absent,
                                     Absent, 404)
            /\ UNCHANGED <<users, signup, tokens>>
       ELSE /\ users' = Remove(users, target)
            /\ tokens' = tokens \ {target}
            /\ signup' = [w \in SignupWorkers |->
                            IF /\ signup[w].st \in {"created", "mailed"}
                               /\ signup[w].username = target
                            THEN [signup[w] EXCEPT !.stale = TRUE]
                            ELSE signup[w]]
            /\ last' = UsersResponse("users", "DELETE", caller, target, Absent,
                                     Absent, 204)
    /\ CatalogUnchanged

\* Lines 118-134: GET and PATCH /users/me/ behind IsAuthenticated.
GetUpdateMe(caller, method, email, role) ==
    /\ IF ~IsAuthenticated(caller)
       THEN /\ last' = UsersResponse("me", method, caller, caller, email, role,
                                     401)
            /\ UNCHANGED users
       ELSE IF ~UserDataValid(caller, email, role)
       THEN /\ last' = UsersResponse("me", method, caller, caller, email, role,
                                     400)
            /\ UNCHANGED users
       ELSE /\ users' = [users EXCEPT ![caller] =
                           Updated(@, email,
                                   IF method = "PATCH" THEN Absent ELSE role)]
            /\ last' = UsersResponse("me", method, caller, caller, email, role,
                                     200)
    /\ UNCHANGED signup
    /\ UNCHANGED tokens
    /\ CatalogUnchanged

(***************************************************************************)
(* The specification of the signup / token / users side                    *)
(***************************************************************************)
\* Who sends a request: a client holding a token, or nobody.
Callers == tokens \cup {Anonymous}
SignupEmails == Emails \cup {Absent}
\* Request bodies of the users resource: the fields email and role.
Body(email, role) == [email |-> email, role |-> role]
NoBody == Body(Absent, Absent)
Bodies == {Body(Absent, "admin"), Body(Absent, "user"), Body("b@x", Absent),
           Body("b@x", "admin"), Body("b@x", Blank)}

\* The database after createsuperuser: one administrator, who holds a token,
\* and nothing else.
Init ==
    /\ users = [n \in {Root} |-> NewUser("r@x", "admin", "admin")]
    /\ tokens = {Root}
    /\ signup = [w \in SignupWorkers |-> Idle]
    /\ titles = {}
    /\ reviews = {}
    /\ comments = {}
    /\ rcreate = [w \in ReviewWorkers |-> RIdle]
    /\ nextId = 1
    /\ last = Pending

Next ==
    \/ \E w \in SignupWorkers, u \in Usernames, e \in SignupEmails :
         SignupPost(w, u, e)
    \/ \E w \in SignupWorkers : SignupSave(w)
    \/ \E w \in SignupWorkers : SignupSendMail(w)
    \/ \E w \in SignupWorkers : SignupPersist(w)
    \/ \E u \in Usernames, c \in Codes \cup {NoCode} : TokenCreate(u, c)
    \/ \E c \in Callers, u \in Usernames, e \in Emails :
         UsersCreate(c, u, e, Absent)
    \/ \E c \in Callers, u \in AllNames, b \in Bodies :
         UsersUpdate(c, "PATCH", u, b.email, b.role)
    \/ \E c \in Callers, u \in AllNames :
         UsersUpdate(c, "PUT", u, "b@x", "admin")
    \/ \E c \in Callers, u \in AllNames :
         UsersDestroy(c, u)
    \/ \E c \in Callers, m \in {"GET", "PATCH"},
          b \in Bodies \cup {NoBody} : GetUpdateMe(c, m, b.email, b.role)

Spec == Init /\ [][Next]_vars


(***************************************************************************)
(* ReviewViewSet                                                           *)
(***************************************************************************)
HttpMethodNamesWithPut ==
    {"GET", "POST", "PUT", "PATCH", "DELETE", "HEAD", "OPTIONS", "TRACE"}

\* Lines 81-83, 226-228, 265-267: ModelViewSet.http_method_names without put.
HttpMethodNames ==
    {"GET", "POST", "PATCH", "DELETE", "HEAD", "OPTIONS", "TRACE"}

ReviewResponse(method, caller, title, id, score, status) ==
    [op |-> "reviews", method |-> method, caller |-> caller, title |-> title,
     id |-> id, score |-> score, status |-> status]

\* ReviewSerializer.is_valid(): the score is in range.
ScoreValid(score) == score \in MinScore..MaxScore

HasReviewAnyTitle(title, author) == \E r \in reviews : r.author = author

\* Lines 244-246: Review.objects.filter(title=..., author=...).exists().
HasReview(title, author) ==
    \E r \in reviews : r.title = title /\ r.author = author

\* IsAuthorModerAdminOrReadOnly.has_object_permission for a write.
MayModify(caller, author) ==
    caller = author \/ RoleOf(caller) \in {"moderator", "admin"}

InFlight == Cardinality({w \in ReviewWorkers : rcreate[w].st = "checked"})

\* CreateModelMixin.create and lines 241-247: the permission, the serializer,
\* then the look-up of an earlier review by this user for this title.
ReviewCreate(w, caller, title, score) ==
    /\ IF ~IsAuthenticated(caller)
       THEN /\ last' = ReviewResponse("POST", caller, title, 0, score, 401)
            /\ UNCHANGED rcreate
       ELSE IF ~ScoreValid(score)
       THEN /\ last' = ReviewResponse("POST", caller, title, 0, score, 400)
            /\ UNCHANGED rcreate
       ELSE IF HasReview(title, caller)
       THEN /\ last' = ReviewResponse("POST", caller, title, 0, score, 400)
            /\ UNCHANGED rcreate
       ELSE /\ rcreate[w].st = "idle"
            /\ nextId + InFlight <= MaxReviews
            /\ rcreate' = [rcreate EXCEPT ![w] =
                             [st |-> "checked", caller |-> caller,
                              title |-> title, score |-> score]]
            /\ last' = Pending
    /\ UNCHANGED <<users, tokens, signup, titles, reviews, comments, nextId>>

\* Lines 248-251: get_title() (404 for a missing title), then the INSERT.
ReviewSave(w) ==
    /\ rcreate[w].st = "checked"
    /\ LET c == rcreate[w] IN
       IF c.title \notin DOMAIN titles
       THEN /\ last' = ReviewResponse("POST", c.caller, c.title, 0, c.score, 404)
            /\ UNCHANGED <<reviews, nextId>>
       ELSE /\ reviews' = reviews \cup
                            {[id |-> nextId, title |-> c.title,
                              author |-> c.caller, score |-> c.score]}
            /\ nextId' = nextId + 1
            /\ last' = ReviewResponse("POST", c.caller, c.title, nextId,
                                      c.score, 201)
    /\ rcreate' = [rcreate EXCEPT ![w] = RIdle]
    /\ UNCHANGED <<users, tokens, signup, titles, comments>>

\* PUT and PATCH /titles/{t}/reviews/{id}/: permissions, the allowed methods,
\* get_object() with its object permission, the serializer, the UPDATE.
ReviewUpdate(caller, method, id, score) ==
    /\ LET found == {r \in reviews : r.id = id} IN
       IF ~IsAuthenticated(caller)
       THEN /\ last' = ReviewResponse(method, caller, 0, id, score, 401)
            /\ UNCHANGED reviews
       ELSE IF method \notin HttpMethodNames
       THEN /\ last' = ReviewResponse(method, caller, 0, id, score, 405)
            /\ UNCHANGED reviews
       ELSE IF found = {}
       THEN /\ last' = ReviewResponse(method, caller, 0, id, score, 404)
            /\ UNCHANGED reviews
       ELSE LET r == CHOOSE x \in found : TRUE IN
            IF ~MayModify(caller, r.author)
            THEN /\ last' = ReviewResponse(method, caller, r.title, id, score,
                                           403)
                 /\ UNCHANGED reviews
            ELSE IF ~ScoreValid(score)
            THEN /\ last' = ReviewResponse(method, caller, r.title, id, score,
                                           400)
                 /\ UNCHANGED reviews
            ELSE /\ reviews' = (reviews \ {r}) \cup {[r EXCEPT !.score = score]}
                 /\ last' = ReviewResponse(method, caller, r.title, id, score,
                                           200)
    /\ UNCHANGED <<users, tokens, signup, titles, comments, rcreate, nextId>>

\* DELETE /titles/{t}/reviews/{id}/; the comments of the review go with it.
ReviewDestroy(caller, id) ==
    /\ LET found == {r \in reviews : r.id = id} IN
       IF ~IsAuthenticated(caller)
       THEN /\ last' = ReviewResponse("DELETE", caller, 0, id, 0, 401)
            /\ UNCHANGED <<reviews, comments>>
       ELSE IF found = {}
       THEN /\ last' = ReviewResponse("DELETE", caller, 0, id, 0, 404)
            /\ UNCHANGED <<reviews, comments>>
       ELSE LET r == CHOOSE x \in found : TRUE IN
            IF ~MayModify(caller, r.author)
            THEN /\ last' = ReviewResponse("DELETE", caller, r.title, id, 0, 403)
                 /\ UNCHANGED <<reviews, comments>>
            ELSE /\ reviews' = reviews \ {r}
                 /\ comments' = {c \in comments : c.review # id}
                 /\ last' = ReviewResponse("DELETE", caller, r.title, id, 0, 204)
    /\ UNCHANGED <<users, tokens, signup, titles, rcreate, nextId>>

(***************************************************************************)
(* TitleViewSet                                                            *)
(***************************************************************************)
RECURSIVE SumScores(_)
SumScores(rs) ==
    IF rs = {} THEN 0
    ELSE LET r == CHOOSE x \in rs : TRUE IN r.score + SumScores(rs \ {r})

\* The rating is the exact quotient num / den; SQL NULL is NullRating.
NullRating == [num |-> 0, den |-> 0]

Mean(rs) ==
    IF rs = {} THEN NullRating
    ELSE [num |-> SumScores(rs), den |-> Cardinality(rs)]

RatingOverAllReviews(t) == Mean(reviews)

\* Lines 85-89: annotate(rating=Avg("reviews__score")), evaluated per query.
Rating(t) == Mean({r \in reviews : r.title = t})

\* GET /titles/{t}/ with GetTitleSerializer: open to everybody.
TitleRetrieve(t) ==
    /\ last' = IF t \in DOMAIN titles
               THEN [op |-> "titles", method |-> "GET", title |-> t,
                     status |-> 200, rating |-> Rating(t)]
               ELSE [op |-> "titles", method |-> "GET", title |-> t,
                     status |-> 404, rating |-> NullRating]
    /\ UNCHANGED <<users, tokens, signup, titles, reviews, comments, rcreate,
                   nextId>>

\* GET /titles/: every title with its rating.
TitleList ==
    /\ last' = [op |-> "titles", method |-> "LIST", status |-> 200,
                ratings |-> [t \in DOMAIN titles |-> Rating(t)]]
    /\ UNCHANGED <<users, tokens, signup, titles, reviews, comments, rcreate,
                   nextId>>

TitleResponse(method, caller, t, name, status) ==
    [op |-> "titles", method |-> method, caller |-> caller, title |-> t,
     name |-> name, status |-> status]

\* PUT and PATCH /titles/{t}/ behind IsAdminOrReadOnly.
TitleUpdate(caller, method, t, name) ==
    /\ IF ~IsAdmin(caller)
       THEN /\ last' = TitleResponse(method, caller, t, name, Denied(caller))
            /\ UNCHANGED titles
       ELSE IF method \notin HttpMethodNames
       THEN /\ last' = TitleResponse(method, caller, t, name, 405)
            /\ UNCHANGED titles
       ELSE IF t \notin DOMAIN titles
       THEN /\ last' = TitleResponse(method, caller, t, name, 404)
            /\ UNCHANGED titles
       ELSE /\ titles' = [titles EXCEPT ![t] = name]
            /\ last' = TitleResponse(method, caller, t, name, 200)
    /\ UNCHANGED <<users, tokens, signup, reviews, comments, rcreate, nextId>>

(***************************************************************************)
(* CommentViewSet                                                          *)
(***************************************************************************)
CommentResponse(method, caller, id, text, status) ==
    [op |-> "comments", method |-> method, caller |-> caller, id |-> id,
     text |-> text, status |-> status]

\* PUT and PATCH /titles/{t}/reviews/{r}/comments/{id}/.
CommentUpdate(caller, method, id, text) ==
    /\ LET found == {c \in comments : c.id = id} IN
       IF ~IsAuthenticated(caller)
       THEN /\ last' = CommentResponse(method, caller, id, text, 401)
            /\ UNCHANGED comments
       ELSE IF method \notin HttpMethodNames
       THEN /\ last' = CommentResponse(method, caller, id, text, 405)
            /\ UNCHANGED comments
       ELSE IF found = {}
       THEN /\ last' = CommentResponse(method, caller, id, text, 404)
            /\ UNCHANGED comments
       ELSE LET c == CHOOSE x \in found : TRUE IN
            IF ~MayModify(caller, c.author)
            THEN /\ last' = CommentResponse(method, caller, id, text, 403)
                 /\ UNCHANGED comments
            ELSE /\ comments' = (comments \ {c}) \cup {[c EXCEPT !.text = text]}
                 /\ last' = CommentResponse(method, caller, id, text, 200)
    /\ UNCHANGED <<users, tokens, signup, titles, reviews, rcreate, nextId>>

(***************************************************************************)
(* The specifications of the catalog side: a populated database            *)
(***************************************************************************)
TitleInputs == {1, 2, 3}
ScoreInputs == {1, 4, 11}
ReviewIds == 1..MaxReviews

\* The administrator and two users who signed up and exchanged their codes
\* for tokens, one of them promoted to moderator since.
CatalogUsers ==
    [n \in {"root", "amy", "bob"} |->
       IF n = "root" THEN NewUser("r@x", "admin", "admin")
       ELSE IF n = "amy"
       THEN [NewUser("a@x", "moderator", "signup") EXCEPT !.code = 1]
       ELSE [NewUser("b@x", "user", "signup") EXCEPT !.code = 2]]

\* One user of each role, all holding tokens, and two titles.
CatalogInit ==
    /\ users = CatalogUsers
    /\ tokens = {"root", "amy", "bob"}
    /\ signup = [w \in SignupWorkers |-> Idle]
    /\ titles = [t \in {1, 2} |-> "n1"]
    /\ reviews = {}
    /\ comments = {}
    /\ rcreate = [w \in ReviewWorkers |-> RIdle]
    /\ nextId = 1
    /\ last = Pending

\* Review creation interleaved with every other review request.
NextRace ==
    \/ \E w \in ReviewWorkers, c \in Callers, t \in TitleInputs,
          s \in ScoreInputs : ReviewCreate(w, c, t, s)
    \/ \E w \in ReviewWorkers : ReviewSave(w)
    \/ \E c \in Callers, id \in ReviewIds : ReviewDestroy(c, id)

SpecRace == CatalogInit /\ [][NextRace]_vars

\* Requests handled one at a time: none starts while a creation is in flight.
NoneInFlight == \A w \in ReviewWorkers : rcreate[w].st = "idle"

NextSeq ==
    \/ \E w \in ReviewWorkers, c \in Callers, t \in TitleInputs,
          s \in ScoreInputs : NoneInFlight /\ ReviewCreate(w, c, t, s)
    \/ \E w \in ReviewWorkers : ReviewSave(w)
    \/ \E c \in Callers, id \in ReviewIds, s \in ScoreInputs :
         NoneInFlight /\ ReviewUpdate(c, "PATCH", id, s)
    \/ \E c \in Callers, id \in ReviewIds :
         NoneInFlight /\ ReviewDestroy(c, id)
    \/ \E t \in TitleInputs : NoneInFlight /\ TitleRetrieve(t)
    \/ NoneInFlight /\ TitleList

SpecSeq == CatalogInit /\ [][NextSeq]_vars

\* The update requests of the four resources, on a database holding one
\* review and one comment.
PutInit ==
    /\ users = CatalogUsers
    /\ tokens = {"root", "amy", "bob"}
    /\ signup = [w \in SignupWorkers |-> Idle]
    /\ titles = [t \in {1, 2} |-> "n1"]
    /\ reviews = {[id |-> 1, title |-> 1, author |-> "bob", score |-> 4]}
    /\ comments = {[id |-> 1, review |-> 1, author |-> "bob", text |-> "t1"]}
    /\ rcreate = [w \in ReviewWorkers |-> RIdle]
    /\ nextId = 2
    /\ last = Pending

Methods == {"PUT", "PATCH"}

NextPut ==
    \/ \E c \in Callers, m \in Methods, u \in {"root", "bob", "me"},
          b \in {Body(Absent, "user"), Body(Absent, "admin")} :
         UsersUpdate(c, m, u, b.email, b.role)
    \/ \E c \in Callers, m \in Methods, t \in TitleInputs :
         TitleUpdate(c, m, t, "n2")
    \/ \E c \in Callers, m \in Methods, id \in ReviewIds, s \in {1, 11} :
         ReviewUpdate(c, m, id, s)
    \/ \E c \in Callers, m \in Methods, id \in {1, 2} :
         CommentUpdate(c, m, id, "t2")

SpecPut == PutInit /\ [][NextPut]_vars

(***************************************************************************)
(* Properties of the review, title and comment resources                   *)
(***************************************************************************)

\* C2 as stated (SpecRace): in every state, two review rows of the same title
\* and the same author are the same row.
C2_OneReviewPerTitleAuthor ==
    \A r1, r2 \in reviews :
        r1.title = r2.title /\ r1.author = r2.author => r1 = r2

\* C3 (SpecSeq): with requests handled one at a time, a review creation by a
\* user who already has a review of that title gets a client error and stores
\* nothing; a valid creation on an existing title by a user who has none
\* gets 201 and stores exactly one new row, of that user, title and score.
C3_OneReviewPerUserAndTitle ==
    [][/\ last'.op = "reviews"
       /\ last'.method = "POST"
       /\ IsAuthenticated(last'.caller)
       => LET mine == {r \in reviews : /\ r.title = last'.title
                                       /\ r.author = last'.caller}
          IN  /\ mine # {} =>
                   /\ last'.status \in 400..499
                   /\ reviews' = reviews
              /\ /\ mine = {}
                 /\ last'.title \in DOMAIN titles
                 /\ last'.score \in MinScore..MaxScore
                 => /\ last'.status = 201
                    /\ Cardinality(reviews') = Cardinality(reviews) + 1
                    /\ \E r \in reviews' \ reviews :
                         /\ reviews' = reviews \cup {r}
                         /\ r.author = last'.caller
                         /\ r.title = last'.title
                         /\ r.score = last'.score
      ]_vars

\* A second review by its author was refused while another user's review of
\* the same title is stored.
C3_Witness ==
    /\ last.op = "reviews"
    /\ last.method = "POST"
    /\ last.status = 400
    /\ last.score \in MinScore..MaxScore
    /\ \E r1, r2 \in reviews :
         /\ r1.title = last.title /\ r1.author = last.caller
         /\ r2.title = last.title /\ r2.author # last.caller

\* The rating a response carries for title t is the mean of the scores of the
\* review rows of t, and null exactly when t has none.
IsMeanOf(rating, t) ==
    LET rs == {r \in reviews : r.title = t} IN
    /\ rating = NullRating <=> rs = {}
    /\ rs # {} =>
         /\ rating.den > 0
         /\ rating.num * Cardinality(rs) = rating.den * SumScores(rs)

\* C8 (SpecSeq): after any sequence of review creations, updates and
\* deletions, the rating of a title in a retrieve or list response is the mean
\* of the scores of the reviews it has now, null exactly when it has none.
C8_RatingIsMean ==
    /\ last.op = "titles" /\ last.method = "GET" /\ last.status = 200 =>
         IsMeanOf(last.rating, last.title)
    /\ last.op = "titles" /\ last.method = "LIST" =>
         \A t \in DOMAIN titles : IsMeanOf(last.ratings[t], t)

\* Title 1 holds two reviews, with scores 1 and 4: its rating is 5/2.
C8_Witness ==
    /\ last.op = "titles"
    /\ last.method = "GET"
    /\ last.title = 1
    /\ last.status = 200
    /\ last.rating = [num |-> 5, den |-> 2]
    /\ Cardinality({r \in reviews : r.title = 1}) = 2

Stored == <<users, titles, reviews, comments>>

PutAnswered ==
    /\ last'.op \in {"users", "titles", "reviews", "comments"}
    /\ last'.method = "PUT"

C1_TokenIffCodeMatches ==
    last.op = "token" =>
        LET known == last.username # "me" /\ Exists(last.username)
            match == /\ known
                     /\ last.code \in Codes
                     /\ last.code = users[last.username].code
        IN  /\ (last.token # NoToken) <=> match
            /\ match => last.status = 200 /\ last.token = last.username
            /\ known /\ ~match => last.status = 400

C1_Witness ==
    /\ last.op = "token"
    /\ last.status = 200
    /\ last.token = "bob"

\* A signup request answered by the step that received it: the lookup of
\* lines 178-200 decided it and no request in flight moved.
SignupAnswered == last'.op = "signup" /\ signup' = signup

\* C6 as stated: a signup for an existing username leaves the user table and
\* every pending code untouched and answers 200 when the e-mail is the stored
\* one, 400 when it is not.
C6_ExistingUserSignup ==
    [][SignupAnswered /\ Exists(last'.username) =>
          /\ users' = users
          /\ tokens' = tokens
          /\ last'.status =
                IF users[last'.username].email = last'.email THEN 200 ELSE 400
      ]_vars

\* C6 amended: a signup for an existing username other than "me" leaves the
\* user table and every pending code untouched and answers 200 when the e-mail
\* is the stored one, 400 when it is not.
C6_ExistingUserSignupNotMe ==
    [][SignupAnswered /\ Exists(last'.username) /\ last'.username # "me" =>
          /\ users' = users
          /\ tokens' = tokens
          /\ last'.status =
                IF users[last'.username].email = last'.email THEN 200 ELSE 400
      ]_vars

C6_Witness ==
    /\ last.op = "signup"
    /\ last.username = "bob"
    /\ last.status = 200
    /\ Exists("bob")
    /\ users["bob"].email = last.email
    /\ users["bob"].code \in Codes
    /\ signup["s1"].st = "idle"

\* C7: a signup or token request naming "me" is answered 400; it creates no
\* user, puts no signup in flight, stores no code and issues no token, whether
\* or not a user "me" exists.
C7_MeRejected ==
    [][/\ last'.op = "signup" /\ last'.username = "me" =>
            /\ last'.status = 400
            /\ users' = users
            /\ signup' = signup
       /\ last'.op = "token" /\ last'.username = "me" =>
            /\ last'.status = 400
            /\ last'.token = NoToken
            /\ users' = users
            /\ tokens' = tokens
      ]_vars

C7_Witness ==
    /\ last.op = "signup"
    /\ last.username = "me"
    /\ last.status = 400
    /\ Exists("me")

\* C5 as stated: a PATCH of /users/me/ whose body carries a role leaves the
\* caller's role as stored, is answered 200, and applies the valid e-mail the
\* body carries.
C5_RoleDroppedNotRejected ==
    [][/\ last'.op = "me"
       /\ last'.method = "PATCH"
       /\ last'.role # Absent
       /\ IsAuthenticated(last'.caller)
       => /\ users'[last'.caller].role = users[last'.caller].role
          /\ last'.status = 200
          /\ EmailValid(last'.email, last'.caller) =>
                users'[last'.caller].email = last'.email
      ]_vars

\* C9 as stated: the role of a stored user changes only in a request to the
\* users resource sent by an administrator.
C9_RoleChangedOnlyByAdmin ==
    [][\A u \in DOMAIN users \cap DOMAIN users' :
          users'[u].role # users[u].role =>
              /\ last'.op \in {"users", "me"}
              /\ IsAdmin(last'.caller)
      ]_vars

\* C10 as stated: in every state a user row that signup created holds a
\* confirmation code.
C10_SignupUserHoldsCode ==
    \A u \in DOMAIN users :
        users[u].origin = "signup" => users[u].code \in Codes

====
